---- MODULE Spec2Model ----
(***************************************************************************)
(* Model of ClaudeTestGenerator (src/claude_test_generator.py): the        *)
(* directory batch generate_tests_for_directory, the single-file           *)
(* generate_tests it awaits, the external agent (query) and the            *)
(* filesystem they share.                                                  *)
(*                                                                         *)
(* File names are sequences of characters, so that startswith, ==, the     *)
(* "*.py" pattern and Path.stem are computed as pathlib computes them.     *)
(* A path is a record [dir, name]; a relative path resolves against the    *)
(* process's current directory ProcCwd.                                    *)
(***************************************************************************)
EXTENDS Naturals, Sequences, FiniteSets, TLC

(* ---------------------------- bounds ----------------------------------- *)
\* most files in the source tree
MaxFiles == 2
\* most calls of generate_tests_for_directory by the caller
MaxRuns == 2
\* most calls of the calculator module
MaxCalls == 2

(* ---------------------------- names ------------------------------------ *)
A_PY      == <<"a", ".", "p", "y">>
B_PY      == <<"b", ".", "p", "y">>
TEST_C_PY == <<"t", "e", "s", "t", "_", "c", ".", "p", "y">>
INIT_PY   == <<"_", "_", "i", "n", "i", "t", "_", "_", ".", "p", "y">>
NOTES_TXT == <<"n", "o", "t", "e", "s", ".", "t", "x", "t">>

\* the literals of the source
TestPrefix == <<"t", "e", "s", "t", "_">>
DotPy      == <<".", "p", "y">>

\* str.startswith
StartsWith(s, p) == Len(s) >= Len(p) /\ SubSeq(s, 1, Len(p)) = p

\* fnmatch of a name against "*.py"
EndsWith(s, p) == Len(s) >= Len(p) /\ SubSeq(s, Len(s) - Len(p) + 1, Len(s)) = p

\* index of the last "." of a name, 0 when there is none (str.rfind)
LastDot(s) ==
    IF \E i \in 1..Len(s) : s[i] = "."
    THEN CHOOSE i \in 1..Len(s) : s[i] = "." /\ \A j \in (i+1)..Len(s) : s[j] # "."
    ELSE 0

\* PurePath.stem: the name without its last suffix; a leading or a trailing
\* dot starts no suffix
Stem(s) ==
    LET i == LastDot(s)
    IN  IF 1 < i /\ i < Len(s) THEN SubSeq(s, 1, i - 1) ELSE s

\* f"test_{Path(p).stem}.py"
TestFileName(name) == TestPrefix \o Stem(name) \o DotPy

(* ---------------------------- filesystem ------------------------------- *)
\* the process's current directory, against which relative paths resolve
ProcCwd == "proc"
\* a working directory other than the process's current directory
WorkDir == "work"

\* parent directory of the directories of the model
Parent(d) ==
    CASE d = "src/pkg"     -> "src"
      [] d = "build/tests" -> "build"
      [] OTHER             -> ProcCwd

\* d is root or lies below it
Under(d, root) == d = root \/ Parent(d) = root

\* the files a source tree may hold
Candidates ==
    { [dir |-> "src",     name |-> A_PY],
      [dir |-> "src",     name |-> B_PY],
      [dir |-> "src/pkg", name |-> A_PY],
      [dir |-> "src",     name |-> TEST_C_PY],
      [dir |-> "src/pkg", name |-> INIT_PY],
      [dir |-> "src",     name |-> NOTES_TXT] }

\* texts an agent may write, the text of a source file, the empty text
Texts == {"t1", "t2"}
SourceText == "source"
EmptyText == ""

\* values of directory_path and output_dir the caller passes
DirectoryArgs == {"src", "nonexistent"}
OutputArgs == {"tests", "build/tests"}

NoFile == [dir |-> "", name |-> <<>>]
NoText == "none"
NoError == "none"

(* ---------------------------- state ------------------------------------ *)
VARIABLES
    files,            \* the files on disk: path |-> text
    dirs,             \* the directories on disk
    cwd,              \* self.cwd, also the agent's working directory
    directory_path,   \* argument of generate_tests_for_directory
    output_dir,       \* argument of generate_tests_for_directory
    order,            \* the order in which glob yields the tree's matches
    stub,             \* NoStub, or the text a stubbed agent writes per file
    pc,               \* position of the batch
    run,              \* number of the current call of the batch
    idx,              \* position of the glob iterator
    python_file,      \* loop variable
    generated_files,  \* local of the batch
    test_code,        \* value returned by generate_tests
    err,              \* the exception in flight
    printed,          \* what print() has emitted in this call
    fate,             \* per file of the tree: its state in this call
    calls,            \* per file: agent calls begun in this call
    agentWrote,       \* per file: text the agent wrote in this call
    agentRet,         \* per file: how the agent call ended in this call
    written,          \* paths whose write_text completed in this call
    ioFault,          \* a write_text has failed in some call
    results,          \* under a stubbed agent: what each finished call gave
    history,          \* Calculator.history
    calcLog,          \* the successful calculate calls so far, in call order
    calcLast          \* the latest call of the calculator module and its outcome

vars == << files, dirs, cwd, directory_path, output_dir, order, stub, pc, run,
           idx, python_file, generated_files, test_code, err, printed, fate,
           calls, agentWrote, agentRet, written, ioFault, results,
           history, calcLog, calcLast >>

\* the state of the generator and of its filesystem
genVars == << files, dirs, cwd, directory_path, output_dir, order, stub, pc, run,
              idx, python_file, generated_files, test_code, err, printed, fate,
              calls, agentWrote, agentRet, written, ioFault, results >>

\* the state of the calculator module
calcVars == << history, calcLog, calcLast >>

\* no Python value
Void == [type |-> "void", num |-> 0, text |-> ""]

\* how a call ends: with a value, or with an exception
Ok(v) == [kind |-> "value", value |-> v, exc |-> "", msg |-> ""]
Raise(e, m) == [kind |-> "raise", value |-> Void, exc |-> e, msg |-> m]

\* a call of the calculator module: its number, function, arguments, outcome
Call(n, fn, op, a, b, out) ==
    [n |-> n, fn |-> fn, op |-> op, a |-> a, b |-> b, out |-> out]

\* no call yet
NoCall == Call(0, "none", "", Void, Void, Ok(Void))

\* a write that appends to an existing file instead of replacing its text
WriteText_append(fs, p, t) ==
    [q \in DOMAIN fs \cup {p} |-> IF q = p
                                  THEN (IF p \in DOMAIN fs THEN fs[p] \o t ELSE t)
                                  ELSE fs[q]]

\* Path.exists() and Path.write_text() of a file: write_text opens with
\* mode "w", which creates the file or replaces its text
Exists(p) == p \in DOMAIN files
WriteText(fs, p, t) == [q \in DOMAIN fs \cup {p} |-> IF q = p THEN t ELSE fs[q]]

\* directory.glob("**/*.py"): the entries at any depth whose name matches
Glob(fs, root) == { p \in DOMAIN fs : Under(p.dir, root) /\ EndsWith(p.name, DotPy) }

\* a skip test that forgets the package initializer
IsSkipped_prefixOnly(p) == StartsWith(p.name, TestPrefix)

\* the skip test of the loop (lines 115-116)
IsSkipped(p) == StartsWith(p.name, TestPrefix) \/ p.name = INIT_PY

\* the entries of a tree the batch is to handle
Eligible(fs, root) == { p \in Glob(fs, root) : ~IsSkipped(p) }

\* no stub: the agent is free to write or not, to return or to raise
NoStub == [p \in Candidates |-> NoText]

\* the stubs of a tree: a text for each eligible file
Stubs(fs) == { st \in [Candidates -> Texts \cup {NoText}] :
                 \A p \in Candidates : st[p] # NoText <=> p \in Eligible(fs, "src") }

\* the file generate_tests looks for: a relative path
ExpectedFile(p) == [dir |-> ProcCwd, name |-> TestFileName(p.name)]

\* the file the agent is asked to create, in its working directory
AgentFile(p) == [dir |-> cwd, name |-> TestFileName(p.name)]

\* output_path / test_file_name
OutputFile(p) == [dir |-> output_dir, name |-> TestFileName(p.name)]

\* the files below the output directory, with their texts
OutputDirContents == { <<p, files[p]>> : p \in { q \in DOMAIN files : q.dir = output_dir } }

\* the caller of a stubbed run keeps what the call gave: the exception or the
\* returned list, and the state of the output directory
Record(e, paths) ==
    IF stub # NoStub
    THEN Append(results, [err |-> e, paths |-> paths, out |-> OutputDirContents,
                          fault |-> ioFault])
    ELSE results

Perms(S) == { s \in [1..Cardinality(S) -> S] : \A i, j \in 1..Cardinality(S) : s[i] = s[j] => i = j }

Tree == { p \in DOMAIN files : Under(p.dir, "src") }

\* the directories on the way to an output directory that may exist before
\* the first call: none, its parent only, or all of them
OutputDirStates(d) ==
    IF Parent(d) = ProcCwd
    THEN {{}, {d}}
    ELSE {{}, {Parent(d)}, {Parent(d), d}}

FreshRun ==
    /\ idx = 1
    /\ python_file = NoFile
    /\ generated_files = << >>
    /\ test_code = NoText
    /\ err = NoError
    /\ printed = {}
    /\ fate = [p \in Candidates |-> "Pending"]
    /\ calls = [p \in Candidates |-> 0]
    /\ agentWrote = [p \in Candidates |-> NoText]
    /\ agentRet = [p \in Candidates |-> "none"]
    /\ written = {}

Init ==
    /\ \E tree \in SUBSET Candidates :
          /\ Cardinality(tree) <= MaxFiles
          /\ files = [p \in tree |-> SourceText]
          /\ order \in Perms(Glob([p \in tree |-> SourceText], "src"))
          /\ stub \in {NoStub} \cup Stubs([p \in tree |-> SourceText])
    /\ cwd \in {ProcCwd, WorkDir}
    /\ directory_path \in DirectoryArgs
    /\ output_dir \in OutputArgs
    /\ \E extra \in OutputDirStates(output_dir) :
          dirs = {ProcCwd, WorkDir, "src", "src/pkg"} \cup extra
    /\ pc = "start"
    /\ run = 1
    /\ FreshRun
    /\ ioFault = FALSE
    /\ results = << >>
    /\ history = << >>
    /\ calcLog = << >>
    /\ calcLast = NoCall

(* ---------------------------- the batch -------------------------------- *)
\* a check that lets every path through
DirectoryExists_unchecked(ds, d) == TRUE

\* line 104: directory.exists()
DirectoryExists(ds, d) == d \in ds

\* lines 103-105: the directory check
CheckDirectory ==
    /\ pc = "start"
    /\ IF DirectoryExists(dirs, directory_path)
       THEN /\ pc' = "mkdir"
            /\ UNCHANGED << err, results >>
       ELSE /\ pc' = "raised"
            /\ err' = "DirectoryNotFound"
            /\ results' = Record("DirectoryNotFound", << >>)
    /\ UNCHANGED << files, dirs, cwd, directory_path, output_dir, order, stub, run,
                    idx, python_file, generated_files, test_code, printed, fate,
                    calls, agentWrote, agentRet, written, ioFault >>
    /\ UNCHANGED calcVars

\* os.mkdir of Path.mkdir(exist_ok=True): no parents are created
MkdirOutcome(ds, d) ==
    IF d \in ds THEN "exists"
    ELSE IF Parent(d) \in ds THEN "created"
    ELSE "FileNotFoundError"

\* lines 107-110: create the output directory, start the outcome
MakeOutputDir ==
    /\ pc = "mkdir"
    /\ LET o == MkdirOutcome(dirs, output_dir)
       IN  IF o = "FileNotFoundError"
           THEN /\ pc' = "raised"
                /\ err' = o
                /\ results' = Record(o, << >>)
                /\ UNCHANGED << dirs, generated_files, idx >>
           ELSE /\ pc' = "loop"
                /\ dirs' = dirs \cup {output_dir}
                /\ generated_files' = << >>
                /\ idx' = 1
                /\ UNCHANGED << err, results >>
    /\ UNCHANGED << files, cwd, directory_path, output_dir, order, stub, run,
                    python_file, test_code, printed, fate, calls, agentWrote,
                    agentRet, written, ioFault >>
    /\ UNCHANGED calcVars

\* the matches glob yields for the directory, in its order
GlobSeq == SelectSeq(order, LAMBDA p : p \in Glob(files, directory_path))

\* lines 113-123: take the next match; skip it, or announce it and call
\* generate_tests, which hands the prompt to the agent (lines 60-78)
NextFile ==
    /\ pc = "loop"
    /\ idx <= Len(GlobSeq)
    /\ LET p == GlobSeq[idx]
       IN  /\ python_file' = p
           /\ idx' = idx + 1
           /\ IF IsSkipped(p)
              THEN /\ fate' = [fate EXCEPT ![p] = "Skipped"]
                   /\ UNCHANGED << pc, printed, calls >>
              ELSE /\ printed' = printed \cup {<< "generating", p, NoError >>}
                   /\ fate' = [fate EXCEPT ![p] = "Requested"]
                   /\ calls' = [calls EXCEPT ![p] = @ + 1]
                   /\ pc' = "awaiting"
    /\ UNCHANGED << files, dirs, cwd, directory_path, output_dir, order, stub, run,
                    generated_files, test_code, err, agentWrote, agentRet,
                    written, ioFault, results >>
    /\ UNCHANGED calcVars

(* ---------------------------- the agent -------------------------------- *)
\* query(prompt, options): with its Write tool the agent creates or overwrites
\* the file it was asked for, in its working directory options.cwd. A stubbed
\* agent writes the text fixed for the file
AgentWrites ==
    /\ pc = "awaiting"
    /\ agentWrote[python_file] = NoText
    /\ \E t \in Texts :
          /\ stub # NoStub => t = stub[python_file]
          /\ files' = WriteText(files, AgentFile(python_file), t)
          /\ agentWrote' = [agentWrote EXCEPT ![python_file] = t]
    /\ UNCHANGED << dirs, cwd, directory_path, output_dir, order, stub, pc, run,
                    idx, python_file, generated_files, test_code, err, printed,
                    fate, calls, agentRet, written, ioFault, results >>
    /\ UNCHANGED calcVars

\* the async iteration of lines 77-78 ends: the agent call has returned. A
\* stubbed agent returns once it has written
AgentReturns ==
    /\ pc = "awaiting"
    /\ stub # NoStub => agentWrote[python_file] # NoText
    /\ agentRet' = [agentRet EXCEPT ![python_file] = "returned"]
    /\ pc' = "readback"
    /\ UNCHANGED << files, dirs, cwd, directory_path, output_dir, order, stub, run,
                    idx, python_file, generated_files, test_code, err, printed,
                    fate, calls, agentWrote, written, ioFault, results >>
    /\ UNCHANGED calcVars

\* the agent call raises; generate_tests has no handler, so the exception
\* leaves it and reaches the except clause of the batch
AgentRaises ==
    /\ pc = "awaiting"
    /\ stub = NoStub
    /\ agentRet' = [agentRet EXCEPT ![python_file] = "raised"]
    /\ err' = "AgentError"
    /\ pc' = "except"
    /\ UNCHANGED << files, dirs, cwd, directory_path, output_dir, order, stub, run,
                    idx, python_file, generated_files, test_code, printed,
                    fate, calls, agentWrote, written, ioFault, results >>
    /\ UNCHANGED calcVars

(* ---------------------------- generate_tests --------------------------- *)
\* a read-back that gives no value when the file is missing
ReadBackResult_none(fs, p) ==
    IF [dir |-> ProcCwd, name |-> TestFileName(p.name)] \in DOMAIN fs
    THEN fs[[dir |-> ProcCwd, name |-> TestFileName(p.name)]]
    ELSE NoText

\* a read-back that takes only a file the agent wrote during this call
ReadBackResult_freshOnly(fs, p) ==
    IF ExpectedFile(p) \in DOMAIN fs /\ agentWrote[p] # NoText
    THEN fs[ExpectedFile(p)]
    ELSE EmptyText

\* lines 82-88: the value generate_tests returns
ReadBackResult(fs, p) ==
    IF ExpectedFile(p) \in DOMAIN fs THEN fs[ExpectedFile(p)] ELSE EmptyText

\* lines 80-88 and the assignment of line 123
ReadBack ==
    /\ pc = "readback"
    /\ test_code' = ReadBackResult(files, python_file)
    /\ pc' = "write"
    /\ UNCHANGED << files, dirs, cwd, directory_path, output_dir, order, stub, run,
                    idx, python_file, generated_files, err, printed, fate,
                    calls, agentWrote, agentRet, written, ioFault, results >>
    /\ UNCHANGED calcVars

(* ---------------------------- the batch, continued --------------------- *)
\* the state a file reaches when its artifact is written
FateOfText(t) == IF t = EmptyText THEN "Empty" ELSE "Completed"

\* a batch that drops an empty result: nothing written, nothing recorded
WriteArtifact_skipEmpty ==
    /\ pc = "write"
    /\ IF test_code = EmptyText
       THEN UNCHANGED << files, generated_files, printed, written >>
       ELSE /\ files' = WriteText(files, OutputFile(python_file), test_code)
            /\ generated_files' = Append(generated_files, OutputFile(python_file))
            /\ printed' = printed \cup {<< "generated", OutputFile(python_file), NoError >>}
            /\ written' = written \cup {OutputFile(python_file)}
    /\ fate' = [fate EXCEPT ![python_file] = FateOfText(test_code)]
    /\ pc' = "loop"
    /\ UNCHANGED << dirs, cwd, directory_path, output_dir, order, stub, run, idx,
                    python_file, test_code, err, calls, agentWrote, agentRet,
                    ioFault, results >>
    /\ UNCHANGED calcVars

\* a batch that puts the newest path first in the outcome
WriteArtifact_prepend ==
    /\ pc = "write"
    /\ files' = WriteText(files, OutputFile(python_file), test_code)
    /\ generated_files' = << OutputFile(python_file) >> \o generated_files
    /\ printed' = printed \cup {<< "generated", OutputFile(python_file), NoError >>}
    /\ written' = written \cup {OutputFile(python_file)}
    /\ fate' = [fate EXCEPT ![python_file] = FateOfText(test_code)]
    /\ pc' = "loop"
    /\ UNCHANGED << dirs, cwd, directory_path, output_dir, order, stub, run, idx,
                    python_file, test_code, err, calls, agentWrote, agentRet,
                    ioFault, results >>
    /\ UNCHANGED calcVars

\* lines 125-133: derive the output path, write the artifact, record the
\* path, announce it
WriteArtifact ==
    /\ pc = "write"
    /\ files' = WriteText(files, OutputFile(python_file), test_code)
    /\ generated_files' = Append(generated_files, OutputFile(python_file))
    /\ printed' = printed \cup {<< "generated", OutputFile(python_file), NoError >>}
    /\ written' = written \cup {OutputFile(python_file)}
    /\ fate' = [fate EXCEPT ![python_file] = FateOfText(test_code)]
    /\ pc' = "loop"
    /\ UNCHANGED << dirs, cwd, directory_path, output_dir, order, stub, run, idx,
                    python_file, test_code, err, calls, agentWrote, agentRet,
                    ioFault, results >>
    /\ UNCHANGED calcVars

\* a batch that records the path before it writes: the entry survives a
\* failed write
WriteFails_phantom ==
    /\ pc = "write"
    /\ \E truncated \in BOOLEAN :
          files' = IF truncated
                   THEN WriteText(files, OutputFile(python_file), EmptyText)
                   ELSE files
    /\ generated_files' = Append(generated_files, OutputFile(python_file))
    /\ err' = "OSError"
    /\ ioFault' = TRUE
    /\ pc' = "except"
    /\ UNCHANGED << dirs, cwd, directory_path, output_dir, order, stub, run, idx,
                    python_file, test_code, printed, fate,
                    calls, agentWrote, agentRet, written, results >>
    /\ UNCHANGED calcVars

\* line 130 raises OSError: either open() failed and the file is untouched,
\* or open() had truncated the file before the write failed
WriteFails ==
    /\ pc = "write"
    /\ \E truncated \in BOOLEAN :
          files' = IF truncated
                   THEN WriteText(files, OutputFile(python_file), EmptyText)
                   ELSE files
    /\ err' = "OSError"
    /\ ioFault' = TRUE
    /\ pc' = "except"
    /\ UNCHANGED << dirs, cwd, directory_path, output_dir, order, stub, run, idx,
                    python_file, generated_files, test_code, printed, fate,
                    calls, agentWrote, agentRet, written, results >>
    /\ UNCHANGED calcVars

\* an except clause that puts the failed file back for another attempt
HandleException_retry ==
    /\ pc = "except"
    /\ printed' = printed \cup {<< "error", python_file, err >>}
    /\ fate' = [fate EXCEPT ![python_file] = "Failed"]
    /\ err' = NoError
    /\ idx' = idx - 1
    /\ pc' = "loop"
    /\ UNCHANGED << files, dirs, cwd, directory_path, output_dir, order, stub, run,
                    python_file, generated_files, test_code, calls,
                    agentWrote, agentRet, written, ioFault, results >>
    /\ UNCHANGED calcVars

\* an except clause that removes the failed file's artifact
HandleException_unlink ==
    /\ pc = "except"
    /\ printed' = printed \cup {<< "error", python_file, err >>}
    /\ fate' = [fate EXCEPT ![python_file] = "Failed"]
    /\ err' = NoError
    /\ files' = [q \in DOMAIN files \ {OutputFile(python_file)} |-> files[q]]
    /\ pc' = "loop"
    /\ UNCHANGED << dirs, cwd, directory_path, output_dir, order, stub, run,
                    idx, python_file, generated_files, test_code, calls,
                    agentWrote, agentRet, written, ioFault, results >>
    /\ UNCHANGED calcVars

\* lines 135-136: the except clause of the loop body
HandleException ==
    /\ pc = "except"
    /\ printed' = printed \cup {<< "error", python_file, err >>}
    /\ fate' = [fate EXCEPT ![python_file] = "Failed"]
    /\ err' = NoError
    /\ pc' = "loop"
    /\ UNCHANGED << files, dirs, cwd, directory_path, output_dir, order, stub, run,
                    idx, python_file, generated_files, test_code, calls,
                    agentWrote, agentRet, written, ioFault, results >>
    /\ UNCHANGED calcVars

\* line 138: the iterator is exhausted, the outcome is returned
Return ==
    /\ pc = "loop"
    /\ idx > Len(GlobSeq)
    /\ pc' = "returned"
    /\ results' = Record(NoError, generated_files)
    /\ UNCHANGED << files, dirs, cwd, directory_path, output_dir, order, stub, run,
                    idx, python_file, generated_files, test_code, err, printed,
                    fate, calls, agentWrote, agentRet, written, ioFault >>
    /\ UNCHANGED calcVars

(* ---------------------------- the caller ------------------------------- *)
\* the caller calls the batch again, with the same arguments
CallAgain ==
    /\ pc \in {"returned", "raised"}
    /\ run < MaxRuns
    /\ run' = run + 1
    /\ pc' = "start"
    /\ idx' = 1
    /\ python_file' = NoFile
    /\ generated_files' = << >>
    /\ test_code' = NoText
    /\ err' = NoError
    /\ printed' = {}
    /\ fate' = [p \in Candidates |-> "Pending"]
    /\ calls' = [p \in Candidates |-> 0]
    /\ agentWrote' = [p \in Candidates |-> NoText]
    /\ agentRet' = [p \in Candidates |-> "none"]
    /\ written' = {}
    /\ UNCHANGED << files, dirs, cwd, directory_path, output_dir, order, stub,
                    ioFault, results >>
    /\ UNCHANGED calcVars

Next ==
    \/ CheckDirectory
    \/ MakeOutputDir
    \/ NextFile
    \/ AgentWrites
    \/ AgentReturns
    \/ AgentRaises
    \/ ReadBack
    \/ WriteArtifact
    \/ WriteFails
    \/ HandleException
    \/ Return
    \/ CallAgain

Spec == Init /\ [][Next]_vars

TypeOK ==
    /\ pc \in {"start", "mkdir", "loop", "awaiting", "readback", "write", "except", "returned", "raised"}
    /\ run \in 1..MaxRuns
    /\ Len(results) <= MaxRuns

(* ======================================================================= *)
(* The calculator module (src/demo_calculator.py)                          *)
(* ======================================================================= *)
\* Python values: a type name, a number (an int's value, a bool's 0 or 1, a
\* float's value in quarters) and a text (a str's value)
PyInt(n)   == [type |-> "int",      num |-> n, text |-> ""]
PyFloat(q) == [type |-> "float",    num |-> q, text |-> ""]
PyBool(b)  == [type |-> "bool",     num |-> IF b THEN 1 ELSE 0, text |-> ""]
PyStr(t)   == [type |-> "str",      num |-> 0, text |-> t]
PyNone     == [type |-> "NoneType", num |-> 0, text |-> ""]

\* the arguments tried: 2, 3, 0.5, "5", True, None
PyValues == { PyInt(2), PyInt(3), PyFloat(2), PyStr("5"), PyBool(TRUE), PyNone }

\* the operation names tried
Operations == {"add", "multiply", "divide"}

\* isinstance(x, (int, float)): bool is a subclass of int
IsIntOrFloat(x) == x.type \in {"int", "float", "bool"}

\* the * and + of Python on numbers: ints and bools give an int, a float
\* operand gives a float
PyMul(a, b) ==
    IF a.type = "float" /\ b.type = "float" THEN PyFloat((a.num * b.num) \div 4)
    ELSE IF a.type = "float" \/ b.type = "float" THEN PyFloat(a.num * b.num)
    ELSE PyInt(a.num * b.num)

PyAdd(a, b) ==
    IF a.type = "float" /\ b.type = "float" THEN PyFloat(a.num + b.num)
    ELSE IF a.type = "float" THEN PyFloat(a.num + 4 * b.num)
    ELSE IF b.type = "float" THEN PyFloat(4 * a.num + b.num)
    ELSE PyInt(a.num + b.num)

\* lines 1-3: add; + is defined on two numbers and on two strings
Add(a, b) ==
    IF IsIntOrFloat(a) /\ IsIntOrFloat(b) THEN Ok(PyAdd(a, b))
    ELSE IF a.type = "str" /\ b.type = "str" THEN Ok(PyStr(a.text \o b.text))
    ELSE Raise("TypeError", "unsupported operand type(s) for +")

\* lines 5-9: multiply
Multiply(a, b) ==
    IF ~IsIntOrFloat(a) \/ ~IsIntOrFloat(b)
    THEN Raise("TypeError", "Arguments must be numbers")
    ELSE Ok(PyMul(a, b))

\* str() of a value, as an f-string formats it
Format(v) ==
    CASE v.type = "int"      -> ToString(v.num)
      [] v.type = "float"    -> ToString(v.num \div 4) \o
                                (CASE v.num % 4 = 0 -> ".0"
                                   [] v.num % 4 = 1 -> ".25"
                                   [] v.num % 4 = 2 -> ".5"
                                   [] v.num % 4 = 3 -> ".75")
      [] v.type = "bool"     -> IF v.num = 1 THEN "True" ELSE "False"
      [] v.type = "str"      -> v.text
      [] v.type = "NoneType" -> "None"
      [] OTHER               -> ""

\* line 26: f"{a} {operation} {b} = {result}"
HistoryEntry(op, a, b, r) ==
    Format(a) \o " " \o op \o " " \o Format(b) \o " = " \o Format(r)

\* lines 19-24: the dispatch of calculate
Dispatch(op, a, b) ==
    IF op = "add" THEN Add(a, b)
    ELSE IF op = "multiply" THEN Multiply(a, b)
    ELSE Raise("ValueError", "Unsupported operation")

\* a calculate that writes the history line before it knows the result
Calculate_logsFirst(op, a, b) ==
    /\ calcLast.n < MaxCalls
    /\ LET out == Dispatch(op, a, b)
       IN  /\ calcLast' = Call(calcLast.n + 1, "calculate", op, a, b, out)
           /\ history' = Append(history, HistoryEntry(op, a, b, out.value))
           /\ calcLog' = IF out.kind = "value"
                         THEN Append(calcLog, Call(calcLast.n + 1, "calculate", op, a, b, out))
                         ELSE calcLog
    /\ UNCHANGED genVars

\* lines 17-27: Calculator.calculate; an exception of the dispatch leaves the
\* method before line 26
Calculate(op, a, b) ==
    /\ calcLast.n < MaxCalls
    /\ LET out == Dispatch(op, a, b)
       IN  /\ calcLast' = Call(calcLast.n + 1, "calculate", op, a, b, out)
           /\ IF out.kind = "value"
              THEN /\ history' = Append(history, HistoryEntry(op, a, b, out.value))
                   /\ calcLog' = Append(calcLog, Call(calcLast.n + 1, "calculate", op, a, b, out))
              ELSE UNCHANGED << history, calcLog >>
    /\ UNCHANGED genVars

\* a direct call of multiply
CallMultiply(a, b) ==
    /\ calcLast.n < MaxCalls
    /\ calcLast' = Call(calcLast.n + 1, "multiply", "", a, b, Multiply(a, b))
    /\ UNCHANGED << history, calcLog >>
    /\ UNCHANGED genVars

\* a direct call of add
CallAdd(a, b) ==
    /\ calcLast.n < MaxCalls
    /\ calcLast' = Call(calcLast.n + 1, "add", "", a, b, Add(a, b))
    /\ UNCHANGED << history, calcLog >>
    /\ UNCHANGED genVars

\* the generator at rest, with an empty filesystem
GenIdle ==
    /\ files = [p \in {} |-> EmptyText]
    /\ dirs = {ProcCwd}
    /\ cwd = ProcCwd
    /\ directory_path = "src"
    /\ output_dir = "tests"
    /\ order = << >>
    /\ stub = NoStub
    /\ pc = "start"
    /\ run = 1
    /\ FreshRun
    /\ ioFault = FALSE
    /\ results = << >>

\* Calculator(): line 15
InitCalc ==
    /\ GenIdle
    /\ history = << >>
    /\ calcLog = << >>
    /\ calcLast = NoCall

NextCalc ==
    \/ \E op \in Operations, a, b \in PyValues : Calculate(op, a, b)
    \/ \E a, b \in PyValues : CallMultiply(a, b)
    \/ \E a, b \in PyValues : CallAdd(a, b)

SpecCalc == InitCalc /\ [][NextCalc]_vars

(* ======================================================================= *)
(* Direct calls of generate_tests and analyze_python_file                  *)
(* ======================================================================= *)
\* texts a file of the caller's tree may hold
SourceTexts == {SourceText, EmptyText}

\* positions in which a direct call has ended
Ended == {"gt_returned", "gt_raised", "an_returned", "an_raised"}

\* the caller may make a call: its first, or another one after a call ended
MayCall == pc = "gt_idle" \/ (pc \in Ended /\ run < MaxRuns)

\* a test file an earlier tool left empty in the process's directory
StaleFile == [dir |-> ProcCwd, name |-> TestFileName(A_PY)]

\* a caller with a generator and a tree of files, with or without the empty
\* test file; nothing is in progress
InitSingle ==
    /\ \E tree \in SUBSET Candidates :
          /\ Cardinality(tree) <= MaxFiles
          /\ \E f \in [tree -> SourceTexts], stale \in BOOLEAN :
                files = IF stale THEN WriteText(f, StaleFile, EmptyText) ELSE f
    /\ dirs = {ProcCwd, WorkDir, "src", "src/pkg"}
    /\ cwd \in {ProcCwd, WorkDir}
    /\ directory_path = "src"
    /\ output_dir = "tests"
    /\ order = << >>
    /\ stub = NoStub
    /\ pc = "gt_idle"
    /\ run = 1
    /\ FreshRun
    /\ ioFault = FALSE
    /\ results = << >>
    /\ history = << >>
    /\ calcLog = << >>
    /\ calcLast = NoCall

\* lines 59-77: generate_tests builds the prompt from the path it is given and
\* hands it to the agent; the path is not looked at
GT_Call(p) ==
    /\ MayCall
    /\ run' = IF pc = "gt_idle" THEN run ELSE run + 1
    /\ python_file' = p
    /\ test_code' = NoText
    /\ err' = NoError
    /\ calls' = [q \in Candidates |-> IF q = p THEN 1 ELSE 0]
    /\ agentWrote' = [q \in Candidates |-> NoText]
    /\ agentRet' = [q \in Candidates |-> "none"]
    /\ pc' = "gt_awaiting"
    /\ UNCHANGED << files, dirs, cwd, directory_path, output_dir, order, stub, idx,
                    generated_files, printed, fate, written, ioFault, results >>
    /\ UNCHANGED calcVars

\* query: the agent writes the file it was asked for, in options.cwd
GT_AgentWrites ==
    /\ pc = "gt_awaiting"
    /\ agentWrote[python_file] = NoText
    /\ \E t \in Texts :
          /\ files' = WriteText(files, AgentFile(python_file), t)
          /\ agentWrote' = [agentWrote EXCEPT ![python_file] = t]
    /\ UNCHANGED << dirs, cwd, directory_path, output_dir, order, stub, pc, run,
                    idx, python_file, generated_files, test_code, err, printed,
                    fate, calls, agentRet, written, ioFault, results >>
    /\ UNCHANGED calcVars

\* lines 77-78: the async iteration ends
GT_AgentReturns ==
    /\ pc = "gt_awaiting"
    /\ agentRet' = [agentRet EXCEPT ![python_file] = "returned"]
    /\ pc' = "gt_readback"
    /\ UNCHANGED << files, dirs, cwd, directory_path, output_dir, order, stub, run,
                    idx, python_file, generated_files, test_code, err, printed,
                    fate, calls, agentWrote, written, ioFault, results >>
    /\ UNCHANGED calcVars

\* a generate_tests that catches the agent's exception and returns ""
GT_AgentRaises_swallowed ==
    /\ pc = "gt_awaiting"
    /\ agentRet' = [agentRet EXCEPT ![python_file] = "raised"]
    /\ test_code' = EmptyText
    /\ pc' = "gt_returned"
    /\ UNCHANGED << files, dirs, cwd, directory_path, output_dir, order, stub, run,
                    idx, python_file, generated_files, err, printed,
                    fate, calls, agentWrote, written, ioFault, results >>
    /\ UNCHANGED calcVars

\* lines 77-78: the agent call raises; generate_tests has no try, so the
\* exception reaches its caller
GT_AgentRaises ==
    /\ pc = "gt_awaiting"
    /\ agentRet' = [agentRet EXCEPT ![python_file] = "raised"]
    /\ err' = "AgentError"
    /\ pc' = "gt_raised"
    /\ UNCHANGED << files, dirs, cwd, directory_path, output_dir, order, stub, run,
                    idx, python_file, generated_files, test_code, printed,
                    fate, calls, agentWrote, written, ioFault, results >>
    /\ UNCHANGED calcVars

\* lines 80-88: the read-back and the return
GT_ReadBack ==
    /\ pc = "gt_readback"
    /\ test_code' = ReadBackResult(files, python_file)
    /\ pc' = "gt_returned"
    /\ UNCHANGED << files, dirs, cwd, directory_path, output_dir, order, stub, run,
                    idx, python_file, generated_files, err, printed, fate,
                    calls, agentWrote, agentRet, written, ioFault, results >>
    /\ UNCHANGED calcVars

\* an analysis that gives the empty text for a missing file
AnalyzeResult_emptyOnMissing(fs, p) ==
    IF p \in DOMAIN fs THEN Ok(PyStr(fs[p])) ELSE Ok(PyStr(EmptyText))

\* lines 40-44: analyze_python_file
AnalyzeResult(fs, p) ==
    IF p \notin DOMAIN fs
    THEN Raise("FileNotFoundError", "File not found")
    ELSE Ok(PyStr(fs[p]))

\* lines 38-44: a call of analyze_python_file
Analyze(p) ==
    /\ MayCall
    /\ run' = IF pc = "gt_idle" THEN run ELSE run + 1
    /\ python_file' = p
    /\ calls' = [q \in Candidates |-> 0]
    /\ agentWrote' = [q \in Candidates |-> NoText]
    /\ agentRet' = [q \in Candidates |-> "none"]
    /\ LET r == AnalyzeResult(files, p)
       IN  IF r.kind = "raise"
           THEN /\ err' = r.exc
                /\ test_code' = NoText
                /\ pc' = "an_raised"
           ELSE /\ err' = NoError
                /\ test_code' = r.value.text
                /\ pc' = "an_returned"
    /\ UNCHANGED << files, dirs, cwd, directory_path, output_dir, order, stub, idx,
                    generated_files, printed, fate, written, ioFault, results >>
    /\ UNCHANGED calcVars

NextSingle ==
    \/ \E p \in Candidates : GT_Call(p)
    \/ GT_AgentWrites
    \/ GT_AgentReturns
    \/ GT_AgentRaises
    \/ GT_ReadBack
    \/ \E p \in Candidates : Analyze(p)

SpecSingle == InitSingle /\ [][NextSingle]_vars

\* a caller that uses the generator either way: single files, or the batch
InitAPI == Init \/ InitSingle

NextAPI == Next \/ NextSingle

SpecAPI == InitAPI /\ [][NextAPI]_vars

(* ======================================================================= *)
(* demo_interactive (src/claude_test_generator.py, lines 141-207)          *)
(* ======================================================================= *)
DEMO_CALCULATOR_PY ==
    <<"d", "e", "m", "o", "_", "c", "a", "l", "c", "u", "l", "a", "t", "o", "r",
      ".", "p", "y">>

\* Path("demo_calculator.py"): relative, so in the process's directory
DemoFile == [dir |-> ProcCwd, name |-> DEMO_CALCULATOR_PY]

\* the literal demo_code
DemoCode == "demo_code"

\* what input().strip() may give: nothing, or the path of a file, present or not
Inputs == {NoFile} \cup Candidates

\* the lines demo_interactive prints
Line(kind, path, e) == << kind, path, e >>

Header == Line("Claude Test Generator Demo", NoFile, NoError)

Hint == Line("Make sure you have installed the Claude Code CLI", NoFile, NoError)

\* the REPL user's filesystem before the first call
InitDemo ==
    /\ \E tree \in SUBSET Candidates :
          /\ Cardinality(tree) <= MaxFiles
          /\ files = [q \in tree |-> SourceText]
    /\ dirs = {ProcCwd, "src", "src/pkg"}
    /\ cwd = ProcCwd
    /\ directory_path = "src"
    /\ output_dir = "tests"
    /\ order = << >>
    /\ stub = NoStub
    /\ pc = "demo_idle"
    /\ run = 1
    /\ FreshRun
    /\ ioFault = FALSE
    /\ results = << >>
    /\ history = << >>
    /\ calcLog = << >>
    /\ calcLast = NoCall

\* demo_interactive may be called: the first time, or again after it returned
MayDemo == pc = "demo_idle" \/ (pc = "demo_done" /\ run < MaxRuns)

\* the state of a call's locals when the call begins, after lines 143-144
DemoBegins ==
    /\ MayDemo
    /\ run' = IF pc = "demo_idle" THEN run ELSE run + 1
    /\ printed' = {Header}
    /\ python_file' = NoFile
    /\ test_code' = NoText

\* lines 143-147: the header is printed and the generator is constructed
DemoConstruct ==
    /\ DemoBegins
    /\ err' = NoError
    /\ pc' = "demo_input"
    /\ UNCHANGED << files, dirs, cwd, directory_path, output_dir, order, stub,
                    idx, generated_files, fate, calls, agentWrote, agentRet,
                    written, ioFault, results >>
    /\ UNCHANGED calcVars

\* line 147 raises
DemoConstructRaises ==
    /\ DemoBegins
    /\ err' = "ConstructError"
    /\ pc' = "demo_except"
    /\ UNCHANGED << files, dirs, cwd, directory_path, output_dir, order, stub,
                    idx, generated_files, fate, calls, agentWrote, agentRet,
                    written, ioFault, results >>
    /\ UNCHANGED calcVars

\* lines 150-153 and 190-192: the user's answer; an empty one announces the
\* demo example, any other is the file to generate tests for
DemoInput(v) ==
    /\ pc = "demo_input"
    /\ python_file' = v
    /\ IF v = NoFile
       THEN /\ printed' = printed \cup {Line("Using demo example...", NoFile, NoError)}
            /\ pc' = "demo_create"
       ELSE /\ printed' = printed \cup {Line("Generating tests...", v, NoError)}
            /\ pc' = "demo_awaiting"
    /\ UNCHANGED << files, dirs, cwd, directory_path, output_dir, order, stub,
                    run, idx, generated_files, test_code, err, fate, calls,
                    agentWrote, agentRet, written, ioFault, results >>
    /\ UNCHANGED calcVars

\* line 150: input() raises (end of input)
DemoInputRaises ==
    /\ pc = "demo_input"
    /\ err' = "EOFError"
    /\ pc' = "demo_except"
    /\ UNCHANGED << files, dirs, cwd, directory_path, output_dir, order, stub,
                    run, idx, python_file, generated_files, test_code, printed,
                    fate, calls, agentWrote, agentRet, written, ioFault,
                    results >>
    /\ UNCHANGED calcVars

\* lines 185-192: the demo file is written and becomes the file to generate
\* tests for
DemoCreate ==
    /\ pc = "demo_create"
    /\ files' = WriteText(files, DemoFile, DemoCode)
    /\ python_file' = DemoFile
    /\ printed' = printed \cup {Line("Created demo file", DemoFile, NoError),
                                Line("Generating tests...", DemoFile, NoError)}
    /\ pc' = "demo_awaiting"
    /\ UNCHANGED << dirs, cwd, directory_path, output_dir, order, stub, run,
                    idx, generated_files, test_code, err, fate, calls,
                    agentWrote, agentRet, written, ioFault, results >>
    /\ UNCHANGED calcVars

\* line 186 raises OSError, with the file untouched or truncated
DemoCreateFails ==
    /\ pc = "demo_create"
    /\ \E truncated \in BOOLEAN :
          files' = IF truncated THEN WriteText(files, DemoFile, EmptyText) ELSE files
    /\ err' = "OSError"
    /\ ioFault' = TRUE
    /\ pc' = "demo_except"
    /\ UNCHANGED << dirs, cwd, directory_path, output_dir, order, stub, run,
                    idx, python_file, generated_files, test_code, printed,
                    fate, calls, agentWrote, agentRet, written, results >>
    /\ UNCHANGED calcVars

\* line 192, inside generate_tests: the agent writes the test file in its
\* working directory (it may rewrite it)
DemoAgentWrites ==
    /\ pc = "demo_awaiting"
    /\ \E t \in Texts :
          /\ files' = WriteText(files, AgentFile(python_file), t)
          /\ files' # files
    /\ UNCHANGED << dirs, cwd, directory_path, output_dir, order, stub, pc,
                    run, idx, python_file, generated_files, test_code, err,
                    printed, fate, calls, agentWrote, agentRet, written,
                    ioFault, results >>
    /\ UNCHANGED calcVars

\* line 192, inside generate_tests: the agent call ends
DemoAgentReturns ==
    /\ pc = "demo_awaiting"
    /\ pc' = "demo_readback"
    /\ UNCHANGED << files, dirs, cwd, directory_path, output_dir, order, stub,
                    run, idx, python_file, generated_files, test_code, err,
                    printed, fate, calls, agentWrote, agentRet, written,
                    ioFault, results >>
    /\ UNCHANGED calcVars

\* line 192: generate_tests raises what the agent call raised
DemoAgentRaises ==
    /\ pc = "demo_awaiting"
    /\ err' = "AgentError"
    /\ pc' = "demo_except"
    /\ UNCHANGED << files, dirs, cwd, directory_path, output_dir, order, stub,
                    run, idx, python_file, generated_files, test_code, printed,
                    fate, calls, agentWrote, agentRet, written, ioFault,
                    results >>
    /\ UNCHANGED calcVars

\* lines 192-197: generate_tests returns the read-back and it is displayed
DemoReadBack ==
    /\ pc = "demo_readback"
    /\ test_code' = ReadBackResult(files, python_file)
    /\ printed' = printed \cup {Line("Generated Tests:", python_file, NoError)}
    /\ pc' = "demo_save"
    /\ UNCHANGED << files, dirs, cwd, directory_path, output_dir, order, stub,
                    run, idx, python_file, generated_files, err, fate, calls,
                    agentWrote, agentRet, written, ioFault, results >>
    /\ UNCHANGED calcVars

\* lines 200-202: the result is saved as test_<stem>.py
DemoSave ==
    /\ pc = "demo_save"
    /\ files' = WriteText(files, ExpectedFile(python_file), test_code)
    /\ printed' = printed \cup {Line("Tests saved to", ExpectedFile(python_file), NoError)}
    /\ pc' = "demo_done"
    /\ UNCHANGED << dirs, cwd, directory_path, output_dir, order, stub, run,
                    idx, python_file, generated_files, test_code, err, fate,
                    calls, agentWrote, agentRet, written, ioFault, results >>
    /\ UNCHANGED calcVars

\* line 201 raises OSError, with the file untouched or truncated
DemoSaveFails ==
    /\ pc = "demo_save"
    /\ \E truncated \in BOOLEAN :
          files' = IF truncated
                   THEN WriteText(files, ExpectedFile(python_file), EmptyText)
                   ELSE files
    /\ err' = "OSError"
    /\ ioFault' = TRUE
    /\ pc' = "demo_except"
    /\ UNCHANGED << dirs, cwd, directory_path, output_dir, order, stub, run,
                    idx, python_file, generated_files, test_code, printed,
                    fate, calls, agentWrote, agentRet, written, results >>
    /\ UNCHANGED calcVars

\* a handler that reports the error and raises it again
DemoExcept_reraise ==
    /\ pc = "demo_except"
    /\ printed' = printed \cup {Line("Error", NoFile, err), Hint}
    /\ pc' = "demo_raised"
    /\ UNCHANGED << files, dirs, cwd, directory_path, output_dir, order, stub,
                    run, idx, python_file, generated_files, test_code, err,
                    fate, calls, agentWrote, agentRet, written, ioFault,
                    results >>
    /\ UNCHANGED calcVars

\* lines 204-207: except Exception reports the error and the hint; the
\* function then ends
DemoExcept ==
    /\ pc = "demo_except"
    /\ printed' = printed \cup {Line("Error", NoFile, err), Hint}
    /\ pc' = "demo_done"
    /\ UNCHANGED << files, dirs, cwd, directory_path, output_dir, order, stub,
                    run, idx, python_file, generated_files, test_code, err,
                    fate, calls, agentWrote, agentRet, written, ioFault,
                    results >>
    /\ UNCHANGED calcVars

NextDemo ==
    \/ DemoConstruct
    \/ DemoConstructRaises
    \/ \E v \in Inputs : DemoInput(v)
    \/ DemoInputRaises
    \/ DemoCreate
    \/ DemoCreateFails
    \/ DemoAgentWrites
    \/ DemoAgentReturns
    \/ DemoAgentRaises
    \/ DemoReadBack
    \/ DemoSave
    \/ DemoSaveFails
    \/ DemoExcept

SpecDemo == InitDemo /\ [][NextDemo]_vars

(* ======================================================================= *)
(* The batch with failing enumeration and failing read-back                *)
(* ======================================================================= *)
\* the batch of Init with a free agent
InitIO == Init /\ stub = NoStub

\* an enumeration whose error is handled like a file's
GlobRaises_isolated ==
    /\ pc = "loop"
    /\ err' = "OSError"
    /\ ioFault' = TRUE
    /\ pc' = "except"
    /\ results' = Record("OSError", << >>)
    /\ UNCHANGED << files, dirs, cwd, directory_path, output_dir, order, stub, run,
                    idx, python_file, generated_files, test_code, printed, fate,
                    calls, agentWrote, agentRet, written >>
    /\ UNCHANGED calcVars

\* line 113: the glob iterator raises when the for statement asks it for the
\* next entry (a directory below cannot be read); the for statement is outside
\* the try, so the exception leaves the batch
GlobRaises ==
    /\ pc = "loop"
    /\ err' = "OSError"
    /\ ioFault' = TRUE
    /\ pc' = "raised"
    /\ results' = Record("OSError", << >>)
    /\ UNCHANGED << files, dirs, cwd, directory_path, output_dir, order, stub, run,
                    idx, python_file, generated_files, test_code, printed, fate,
                    calls, agentWrote, agentRet, written >>
    /\ UNCHANGED calcVars

\* line 86: read_text of the file that exists raises, inside generate_tests;
\* the call is inside the try of the batch (line 123)
ReadBackFails ==
    /\ pc = "readback"
    /\ Exists(ExpectedFile(python_file))
    /\ err' = "OSError"
    /\ ioFault' = TRUE
    /\ pc' = "except"
    /\ UNCHANGED << files, dirs, cwd, directory_path, output_dir, order, stub, run,
                    idx, python_file, generated_files, test_code, printed, fate,
                    calls, agentWrote, agentRet, written, results >>
    /\ UNCHANGED calcVars

NextIO ==
    \/ Next
    \/ GlobRaises
    \/ ReadBackFails

SpecIO == InitIO /\ [][NextIO]_vars

(* ======================================================================= *)
(* The batch under scheduling assumptions                                  *)
(* ======================================================================= *)
\* the steps of the batch's own code: the event loop runs the coroutine
\* whenever it is not waiting for the agent
BatchStep ==
    \/ CheckDirectory
    \/ MakeOutputDir
    \/ NextFile
    \/ ReadBack
    \/ WriteArtifact
    \/ WriteFails
    \/ HandleException
    \/ Return

\* the steps of an agent call in progress, up to its end (lines 77-78)
AgentCompletes ==
    \/ AgentWrites
    \/ AgentReturns
    \/ AgentRaises

\* the batch with a coroutine that is always resumed and agent calls that
\* always end; nothing obliges the caller to call again
SpecLive == Spec /\ WF_vars(BatchStep) /\ WF_vars(AgentCompletes)

(* ======================================================================= *)
(* The claims                                                              *)
(* ======================================================================= *)
Range(q) == { q[i] : i \in 1..Len(q) }

\* the files of the directory the batch is to handle, by their names alone
EligibleFiles ==
    { p \in DOMAIN files :
        /\ Under(p.dir, directory_path)
        /\ EndsWith(p.name, DotPy)
        /\ ~StartsWith(p.name, TestPrefix)
        /\ p.name # INIT_PY }

\* the final states of a file within a call
Final == {"Completed", "Empty", "Failed"}

\* the files that have received an agent call in this call of the batch
Called == { p \in Candidates : calls[p] > 0 }

(* ---- C1 --------------------------------------------------------------- *)
\* C1 (as claimed): if the agent call for an eligible file X raises, the
\* batch still returns normally, and when it returns X's output path is not
\* in the outcome, no artifact was written at X's output path, a notice names
\* X and the error, and every eligible file is in a final state.
C1_FailureIsolation ==
    /\ (\E p \in Candidates : agentRet[p] = "raised") => pc # "raised"
    /\ pc = "returned" =>
         \A p \in EligibleFiles :
            agentRet[p] = "raised" =>
               /\ OutputFile(p) \notin Range(generated_files)
               /\ OutputFile(p) \notin written
               /\ << "error", p, "AgentError" >> \in printed
               /\ \A q \in EligibleFiles : fate[q] \in Final

(* ---- C2 --------------------------------------------------------------- *)
\* C2: while the directory does not exist, no step of the batch writes a file
\* or creates a directory, no agent call is made, and the call goes from its
\* start straight to the raised DirectoryNotFound error.
C2_DirectoryNotFound ==
    [][ directory_path \notin dirs =>
          /\ files' = files
          /\ dirs' = dirs
          /\ Called' = {}
          /\ pc' \in {"start", "raised"}
          /\ pc' = "raised" => err' = "DirectoryNotFound" ]_vars

C2_Witness == pc = "raised" /\ err = "DirectoryNotFound" /\ output_dir \notin dirs

(* ---- C3 --------------------------------------------------------------- *)
\* C3 (as claimed): when the batch returns, the files that received an agent
\* call are exactly the files under the directory, at any depth, whose name
\* neither begins with test_ nor equals __init__.py.
C3_AllButExcluded ==
    pc = "returned" =>
       Called = { p \in DOMAIN files :
                    /\ Under(p.dir, directory_path)
                    /\ ~StartsWith(p.name, TestPrefix)
                    /\ p.name # INIT_PY }

\* C3 (amended): the files that receive an agent call are only, and when the
\* batch returns exactly, the files under the directory, at any depth, whose
\* name ends in .py and neither begins with test_ nor equals __init__.py; no
\* other file ever gets an agent call or an outcome entry.
C3_PythonSourcesOnly ==
    /\ Called \subseteq EligibleFiles
    /\ \A p \in DOMAIN files \ EligibleFiles :
          Under(p.dir, "src") => OutputFile(p) \notin Range(generated_files)
    /\ pc = "returned" => Called = EligibleFiles

C3_Witness ==
    /\ pc = "returned"
    /\ \E p \in Called : p.dir = "src/pkg"
    /\ \E q \in Candidates : fate[q] = "Skipped"

(* ---- C4 --------------------------------------------------------------- *)
\* C4: once the agent call for a file has returned and no test_<stem>.py is on
\* disk, neither in the agent's working directory nor in the process's,
\* generate_tests has returned the empty text without raising, and the batch,
\* unless the write itself fails, has left an empty file at
\* output_dir/test_<stem>.py and made its path the newest outcome entry.
C4_SilentNonProduction ==
    ( /\ pc \in {"write", "loop", "returned"}
      /\ python_file # NoFile
      /\ agentRet[python_file] = "returned"
      /\ ~Exists(ExpectedFile(python_file))
      /\ ~Exists(AgentFile(python_file)) )
    => /\ test_code = EmptyText
       /\ err = NoError
       /\ (pc # "write" /\ fate[python_file] # "Failed") =>
             /\ Exists(OutputFile(python_file))
             /\ files[OutputFile(python_file)] = EmptyText
             /\ Len(generated_files) > 0
             /\ generated_files[Len(generated_files)] = OutputFile(python_file)

C4_Witness ==
    /\ pc = "returned"
    /\ python_file # NoFile
    /\ agentRet[python_file] = "returned"
    /\ ~Exists(ExpectedFile(python_file))
    /\ ~Exists(AgentFile(python_file))
    /\ Exists(OutputFile(python_file))
    /\ files[OutputFile(python_file)] = EmptyText
    /\ OutputFile(python_file) \in Range(generated_files)

C6_NoPhantomEntries ==
    [][ /\ Len(generated_files') <= Cardinality(EligibleFiles')
        /\ Len(generated_files') =
              Cardinality({ p \in Candidates : fate'[p] \in {"Completed", "Empty"} })
        /\ \A i \in 1..Len(generated_files') :
              /\ generated_files'[i] \in written'
              /\ generated_files'[i] \in DOMAIN files'
        /\ (pc = "write" /\ err' = "OSError") => generated_files' = generated_files ]_vars

C6_Witness ==
    /\ pc = "returned"
    /\ Len(generated_files) = 1
    /\ \E p \in EligibleFiles :
          /\ fate[p] = "Failed"
          /\ agentRet[p] = "returned"
          /\ OutputFile(p) \notin Range(generated_files)

(* ---- C7 --------------------------------------------------------------- *)
\* C7 (as claimed): when the batch returns, no write having failed, every
\* eligible file whose agent call wrote test_<stem>.py into the working
\* directory and returned has output_dir/test_<stem>.py in the outcome, and
\* that file holds exactly the text the agent wrote for it; with two such
\* files the outcome has exactly two entries.
C7_ArtifactHoldsAgentText ==
    (pc = "returned" /\ ~ioFault) =>
       LET produced == { p \in EligibleFiles :
                           agentRet[p] = "returned" /\ agentWrote[p] # NoText }
       IN  /\ \A p \in produced :
                /\ OutputFile(p) \in Range(generated_files)
                /\ Exists(OutputFile(p))
                /\ files[OutputFile(p)] = agentWrote[p]
           /\ (Cardinality(produced) = 2 /\ produced = EligibleFiles)
                 => Len(generated_files) = 2

(* ---- C8 --------------------------------------------------------------- *)
\* C8 (as claimed): when the agent call has returned and test_<stem>.py exists
\* in the generator's configured working directory, generate_tests returns
\* that file's text, whatever the configured directory is.
C8_ReadsFromConfiguredCwd ==
    (pc = "write" /\ Exists(AgentFile(python_file)))
       => test_code = files[AgentFile(python_file)]

(* ---- C9 --------------------------------------------------------------- *)
\* C9: of two calls on the same directory and output directory that both
\* return, under a stubbed agent that writes the same text per file each time
\* and with no write failing, the later call returns the same paths as the
\* earlier one and leaves the output directory with the same files and texts.
C9_Idempotent ==
    \A i, j \in 1..Len(results) :
       (i < j /\ results[i].err = NoError /\ results[j].err = NoError
              /\ ~results[j].fault)
       => /\ results[j].paths = results[i].paths
          /\ results[j].out = results[i].out

C9_Witness ==
    /\ Len(results) >= 2
    /\ results[1].err = NoError
    /\ results[2].err = NoError
    /\ ~results[2].fault
    /\ Len(results[2].paths) = 2
    /\ results[2].out # {}

(* ---- C10 -------------------------------------------------------------- *)
\* C10 (as claimed): when the directory exists and holds no eligible file, the
\* call does not raise; it makes no agent call, returns an empty outcome, and
\* the output directory exists once it has returned.
C10_EmptyDirectory ==
    (directory_path \in dirs /\ EligibleFiles = {}) =>
       /\ pc # "raised"
       /\ Called = {}
       /\ pc = "returned" => (generated_files = << >> /\ output_dir \in dirs)

(* ---- C16 -------------------------------------------------------------- *)
\* C16: history holds exactly one entry per successful calculate call, in call
\* order, each "<a> <operation> <b> = <result>"; a calculate call that raises
\* (ValueError for an unsupported operation, TypeError from multiply or add)
\* leaves history as it was, and a successful call appends whatever came
\* before it.
C16_HistoryPerSuccess ==
    [][ /\ Len(history') = Len(calcLog')
        /\ \A i \in 1..Len(history') :
              history'[i] = Format(calcLog'[i].a) \o " " \o calcLog'[i].op \o " "
                            \o Format(calcLog'[i].b) \o " = "
                            \o Format(calcLog'[i].out.value)
        /\ (calcLast'.n # calcLast.n /\ calcLast'.fn = "calculate") =>
              /\ calcLast'.op \notin {"add", "multiply"} =>
                    calcLast'.out.kind = "raise" /\ calcLast'.out.exc = "ValueError"
              /\ calcLast'.out.kind = "raise" => history' = history
              /\ calcLast'.out.kind = "value" =>
                    /\ calcLog' = Append(calcLog, calcLast')
                    /\ Len(history') = Len(history) + 1
                    /\ SubSeq(history', 1, Len(history)) = history ]_vars

C16_Witness ==
    /\ calcLast.n = 2
    /\ calcLast.fn = "calculate"
    /\ calcLast.out.kind = "raise"
    /\ calcLast.out.exc = "TypeError"
    /\ history = << "2 add 3 = 5" >>

(* ---- C17 -------------------------------------------------------------- *)
\* C17 (as claimed): multiply raises TypeError("Arguments must be numbers")
\* whenever an argument is not an int or a float - a string, None or a
\* boolean - and returns the product only when both are ints or floats.
C17_MultiplyRejectsNonNumbers ==
    calcLast.fn = "multiply" =>
       IF calcLast.a.type \in {"int", "float"} /\ calcLast.b.type \in {"int", "float"}
       THEN calcLast.out = Ok(PyMul(calcLast.a, calcLast.b))
       ELSE calcLast.out = Raise("TypeError", "Arguments must be numbers")

(* ---- C11 -------------------------------------------------------------- *)
\* the files that have their artifact, in the order glob yields them
Done == SelectSeq(order, LAMBDA p : fate[p] \in {"Completed", "Empty"})

\* C11: at most one file is in state Requested at any moment, it is the loop's
\* current file and every file requested before it is final, so no agent call
\* begins before the previous file is final; and the outcome lists the paths
\* of the files that have their artifact in the order glob yielded them.
C11_OneAtATime ==
    /\ Cardinality({ p \in Candidates : fate[p] = "Requested" }) <= 1
    /\ \A p \in Candidates :
          fate[p] = "Requested" =>
             /\ p = python_file
             /\ pc \in {"awaiting", "readback", "write", "except"}
             /\ \A q \in Candidates \ {p} : calls[q] > 0 => fate[q] \in Final
    /\ pc \in {"awaiting", "readback", "write", "except"} => fate[python_file] = "Requested"
    /\ generated_files = [i \in 1..Len(Done) |-> OutputFile(Done[i])]

C11_Witness ==
    /\ pc = "returned"
    /\ Len(generated_files) = 2
    /\ generated_files[1] # generated_files[2]

(* ---- C12 -------------------------------------------------------------- *)
\* C12 (as claimed): for an existing source directory the call gets past the
\* creation of the output directory, plain name or path, absent or present:
\* it does not raise there, and the output directory exists from then on.
C12_OutputDirCreated ==
    (directory_path \in dirs /\ pc \notin {"start", "mkdir"})
       => (output_dir \in dirs /\ err # "FileNotFoundError")

(* ---- C19 -------------------------------------------------------------- *)
\* C19: within one call no file gets more than one agent call, a file in a
\* final state is not requested again and keeps its state until the call
\* returns, and when the call returns every eligible file has had exactly one
\* agent call.
C19_NoRetries ==
    [][ /\ \A p \in Candidates : calls'[p] <= 1
        /\ \A p \in Candidates :
              (fate[p] \in Final /\ pc' # "start") =>
                 (fate'[p] = fate[p] /\ calls'[p] = calls[p])
        /\ pc' = "returned" => \A p \in EligibleFiles' : calls'[p] = 1 ]_vars

C19_Witness ==
    /\ pc = "returned"
    /\ \E p, q \in EligibleFiles :
          /\ fate[p] = "Failed" /\ calls[p] = 1
          /\ fate[q] \in {"Completed", "Empty"} /\ calls[q] = 1

(* ---- C20 -------------------------------------------------------------- *)
\* C20 (as claimed): once a file X is Completed, no later step of the same
\* call changes the text stored at X's output path, whatever other files the
\* directory holds and whatever happens to them (no write having failed).
C20_FateIndependent ==
    [][ \A p \in Candidates :
           (fate[p] = "Completed" /\ fate'[p] = "Completed" /\ ~ioFault') =>
              /\ OutputFile(p) \in DOMAIN files'
              /\ files'[OutputFile(p)] = files[OutputFile(p)] ]_vars

(* ---- C13 -------------------------------------------------------------- *)
\* C13: when the agent call of a direct generate_tests call has raised, the
\* call has ended with that error at its caller and has returned no value, not
\* even the empty text; when an agent call inside the directory batch has
\* raised, the batch is never in the raised state and the error is gone once
\* the except clause has run.
C13_FailFastVsFailSoft ==
    /\ (pc \in {"gt_awaiting", "gt_readback", "gt_returned", "gt_raised"}
          /\ agentRet[python_file] = "raised")
       => (pc = "gt_raised" /\ err = "AgentError" /\ test_code = NoText)
    /\ (pc \in {"loop", "awaiting", "readback", "write", "except", "returned", "raised"}
          /\ \E p \in Candidates : agentRet[p] = "raised")
       => (pc # "raised" /\ (pc \in {"loop", "returned"} => err = NoError))

C13_Witness ==
    /\ pc = "gt_raised"
    /\ err = "AgentError"
    /\ agentWrote[python_file] # NoText

(* ---- C14 -------------------------------------------------------------- *)
\* C14 (as claimed): a direct generate_tests call for a path that is not an
\* existing file makes no agent call and ends with file-not-found.
C14_MissingSourceFailsFirst ==
    (pc \in {"gt_awaiting", "gt_readback", "gt_returned", "gt_raised"}
       /\ python_file \notin DOMAIN files)
    => (pc = "gt_raised" /\ err = "FileNotFoundError" /\ calls[python_file] = 0)

C18_DemoNeverRaises ==
    /\ pc # "demo_raised"
    /\ (pc \in {"demo_input", "demo_create", "demo_awaiting", "demo_readback",
                "demo_save", "demo_except", "demo_done"} /\ err # NoError)
       => /\ pc \in {"demo_except", "demo_done"}
          /\ pc = "demo_done" => {Line("Error", NoFile, err), Hint} \subseteq printed
    /\ (pc = "demo_except" => err # NoError)
    /\ (pc \in {"demo_awaiting", "demo_readback", "demo_save"}
          /\ Line("Using demo example...", NoFile, NoError) \in printed)
       => /\ python_file = DemoFile
          /\ DemoFile \in DOMAIN files
          /\ files[DemoFile] = DemoCode

C18_Witness ==
    /\ pc = "demo_done"
    /\ err = "OSError"
    /\ python_file = DemoFile
    /\ test_code \in Texts
    /\ Hint \in printed

(* ---- C23 -------------------------------------------------------------- *)
\* C23 (as claimed): when a direct generate_tests call has returned, its
\* result is the current text of test_<stem>.py if that file exists, written
\* during the call or not, and the result is empty only if the file does not
\* exist.
C23_EmptyOnlyWhenAbsent ==
    pc = "gt_returned" =>
       /\ Exists(ExpectedFile(python_file)) => test_code = files[ExpectedFile(python_file)]
       /\ test_code = EmptyText => ~Exists(ExpectedFile(python_file))

\* C23 (amended): when a direct generate_tests call has returned, its result
\* is the current text of test_<stem>.py if that file exists, written during
\* the call or not, and the result is empty only if the file does not exist
\* or exists with empty text.
C23_ReturnsCurrentText ==
    pc = "gt_returned" =>
       /\ Exists(ExpectedFile(python_file)) => test_code = files[ExpectedFile(python_file)]
       /\ ~Exists(ExpectedFile(python_file)) => test_code = EmptyText
       /\ test_code = EmptyText =>
             \/ ~Exists(ExpectedFile(python_file))
             \/ files[ExpectedFile(python_file)] = EmptyText

C23_Witness ==
    /\ pc = "gt_returned"
    /\ agentWrote[python_file] = NoText
    /\ Exists(ExpectedFile(python_file))
    /\ test_code \in Texts

(* ---- C24 -------------------------------------------------------------- *)
\* C24: an error raised in the per-file step (agent call, read-back, artifact
\* write) takes the batch to its except clause, from which the loop goes on;
\* an error raised while the output directory is created or while the
\* directory is enumerated takes the batch to the raised state with no file
\* changed, and a batch that has raised does not return: its next step, if
\* any, is a new call.
C24_OnlyPerFileIsolated ==
    [][ /\ (pc \in {"awaiting", "readback", "write"} /\ err' # NoError) => pc' = "except"
        /\ (pc = "except" /\ pc' # pc) => (pc' = "loop" /\ err' = NoError)
        /\ (pc \in {"mkdir", "loop"} /\ err' # NoError) =>
              /\ pc' = "raised"
              /\ files' = files
              /\ generated_files' = generated_files
        /\ (pc = "raised" /\ pc' # pc) => pc' = "start" ]_vars

C24_Witness ==
    /\ pc = "raised"
    /\ err = "OSError"
    /\ Len(generated_files) > 0
    /\ \E p \in Candidates : fate[p] = "Failed"
    /\ \A q \in Range(generated_files) : Exists(q)

(* ---- C22 -------------------------------------------------------------- *)
\* the files a step creates or changes
Touched == { q \in DOMAIN files' : q \notin DOMAIN files \/ files'[q] # files[q] }

\* the steps of the agent, which are not the component's own
AgentStep == pc \in {"awaiting", "gt_awaiting"} /\ pc' = pc

\* what C22 says of every step but its last clause: no file is deleted; the
\* only directory created is the output directory; a step of the component
\* itself touches at most outputDir/test_<stem>.py of the eligible file in
\* progress, so generate_tests (call and read-back) touches nothing; no
\* eligible source is touched.
C22_Frame ==
    /\ DOMAIN files \subseteq DOMAIN files'
    /\ dirs \subseteq dirs'
    /\ dirs' \subseteq dirs \cup {output_dir}
    /\ ~AgentStep =>
          \A q \in Touched :
             /\ pc = "write"
             /\ q = OutputFile(python_file)
             /\ python_file \in EligibleFiles
             /\ fate[python_file] = "Requested"
    /\ \A q \in Touched : q \notin EligibleFiles

\* no artifact has the name of a source the batch would process, whatever the
\* output directory
NoArtifactNamedAsSource ==
    \A p, q \in Candidates :
       (~IsSkipped(p) /\ ~IsSkipped(q)) => TestFileName(p.name) # q.name

\* C22 (as claimed): no artifact is named as an eligible source; every step
\* keeps the frame above; and the step in which a file is skipped
\* or its processing fails touches no file, so whatever a prior run left in
\* the output directory is unchanged.
C22_FailedLeavesArtifacts ==
    /\ NoArtifactNamedAsSource
    /\ [][ /\ C22_Frame
           /\ (pc' = "except" /\ pc # "except") => Touched = {}
           /\ (\E p \in Candidates : fate[p] # "Skipped" /\ fate'[p] = "Skipped")
                 => Touched = {} ]_vars

\* C22 (amended): no artifact is named as an eligible source; every step
\* keeps the frame above; the step in which a file is skipped, or in
\* which its agent call or read-back fails, touches no file; the step in which
\* its artifact write fails touches at most that artifact, leaving it empty.
C22_FailedBeforeWriteLeavesArtifacts ==
    /\ NoArtifactNamedAsSource
    /\ [][ /\ C22_Frame
           /\ (pc' = "except" /\ pc \in {"awaiting", "readback"}) => Touched = {}
           /\ (pc' = "except" /\ pc = "write") =>
                 \A q \in Touched : q = OutputFile(python_file) /\ files'[q] = EmptyText
           /\ (\E p \in Candidates : fate[p] # "Skipped" /\ fate'[p] = "Skipped")
                 => Touched = {} ]_vars

C22_Witness ==
    /\ pc = "returned"
    /\ run = 2
    /\ \E p \in EligibleFiles :
          /\ fate[p] = "Failed"
          /\ agentRet[p] = "raised"
          /\ OutputFile(p) \notin written
          /\ Exists(OutputFile(p))
          /\ files[OutputFile(p)] \in Texts
    /\ \E q \in Candidates : fate[q] = "Skipped"

(* ---- C21 -------------------------------------------------------------- *)
\* C21 (as claimed): when every agent call ends, a batch whose directory
\* exists eventually returns with every eligible file in a final state; and
\* as long as the agent call in progress has not ended, the batch stays at
\* that file: it requests no other file and does not return.
C21_ReturnsUnlessBlocked ==
    /\ (pc = "mkdir") ~> (pc = "returned" /\ \A p \in EligibleFiles : fate[p] \in Final)
    /\ [][ (pc = "awaiting" /\ agentRet' = agentRet) =>
              /\ pc' = "awaiting"
              /\ python_file' = python_file
              /\ calls' = calls
              /\ fate' = fate ]_vars

====
